---- MODULE Spec2Model ----
(***************************************************************************)
(* Model of scripts/backfill_pm25.py: the in-place backfill of the county  *)
(* PM2.5 table from the reference county list.                             *)
(*                                                                         *)
(* Strings are sequences of one-character strings.  A CSV field is a       *)
(* record [none, s]: none = TRUE is the None that csv.DictReader gives for *)
(* a field missing from a short row.  A value field is a record            *)
(* [kind, neg, coeff, exp]: kind "None" (missing), "empty" (''), "bad"     *)
(* (text Decimal() rejects, such as 'abc') or "num", the decimal literal   *)
(* with sign neg, digits coeff and exp fractional digits ('8.123' is       *)
(* coeff 8123, exp 3).  A Decimal is [neg, num, den], the exact value      *)
(* (-1)^neg * num / den; the literals and row counts of the model keep     *)
(* every quotient far inside the 28 significant digits of the decimal      *)
(* context, so the context rounding of the sum and of the division never  *)
(* moves a mean across a rounding boundary of the third fractional digit   *)
(* (it can for literals of more than 28 significant digits, which are      *)
(* outside the inputs drawn here).                                         *)
(***************************************************************************)
EXTENDS Integers, Sequences, FiniteSets, TLC

VARIABLES pmFile, placesFile, pc, run, idx, pm_values, state_values,
          national_values, fips_codes, all_fips, national_mean, state_means,
          output_rows, err, inputFile

vars == <<pmFile, placesFile, pc, run, idx, pm_values, state_values,
          national_values, fips_codes, all_fips, national_mean, state_means,
          output_rows, err, inputFile>>

(* ------------------------------ bounds -------------------------------- *)

MaxPmRows == 2

MaxPlaces == 2

MaxRuns == 2

(* ------------------------------ strings ------------------------------- *)

Ord == [c \in {" ", "-", "+", "0", "1", "2", "3", "5", "9"} |->
          CASE c = " " -> 32 [] c = "+" -> 43 [] c = "-" -> 45
            [] c = "0" -> 48 [] c = "1" -> 49 [] c = "2" -> 50
            [] c = "3" -> 51 [] c = "5" -> 53 [] c = "9" -> 57]

RECURSIVE StrLess(_, _)
StrLess(a, b) ==
  IF b = <<>> THEN FALSE
  ELSE IF a = <<>> THEN TRUE
  ELSE IF Ord[Head(a)] # Ord[Head(b)] THEN Ord[Head(a)] < Ord[Head(b)]
  ELSE StrLess(Tail(a), Tail(b))

RECURSIVE lstrip(_)
lstrip(s) == IF s # <<>> /\ Head(s) = " " THEN lstrip(Tail(s)) ELSE s

RECURSIVE rstrip(_)
rstrip(s) ==
  IF s # <<>> /\ s[Len(s)] = " " THEN rstrip(SubSeq(s, 1, Len(s) - 1)) ELSE s

strip(s) == rstrip(lstrip(s))

RECURSIVE Zeros(_)
Zeros(n) == IF n <= 0 THEN <<>> ELSE <<"0">> \o Zeros(n - 1)

zfill(s, width) ==
  IF Len(s) >= width THEN s
  ELSE IF s # <<>> /\ Head(s) \in {"+", "-"}
       THEN <<Head(s)>> \o Zeros(width - Len(s)) \o Tail(s)
       ELSE Zeros(width - Len(s)) \o s

OrEmpty(field) == IF field.none \/ field.s = <<>> THEN <<>> ELSE field.s

normalize_fips(field) == zfill(strip(OrEmpty(field)), 5)

Prefix2(fips) == SubSeq(fips, 1, IF Len(fips) < 2 THEN Len(fips) ELSE 2)

Str(s) == [none |-> FALSE, s |-> s]

NoneField == [none |-> TRUE, s |-> <<>>]

(* ------------------------------ decimals ------------------------------ *)

Pow10(e) == CASE e = 0 -> 1 [] e = 1 -> 10 [] e = 2 -> 100 [] e = 3 -> 1000
              [] e = 4 -> 10000

Num(neg, coeff, exp) == [kind |-> "num", neg |-> neg, coeff |-> coeff, exp |-> exp]

NoneValue == [kind |-> "None", neg |-> FALSE, coeff |-> 0, exp |-> 0]

EmptyValue == [kind |-> "empty", neg |-> FALSE, coeff |-> 0, exp |-> 0]

BadValue == [kind |-> "bad", neg |-> FALSE, coeff |-> 0, exp |-> 0]

ParseOk(text) == text.kind = "num"

parse_decimal(text) ==
  [neg |-> text.neg, num |-> text.coeff, den |-> Pow10(text.exp)]

DecimalZero == [neg |-> FALSE, num |-> 0, den |-> 1]

Signed(d) == IF d.neg THEN 0 - d.num ELSE d.num

DecimalAdd(a, b) ==
  LET den == IF a.den > b.den THEN a.den ELSE b.den
      t   == Signed(a) * (den \div a.den) + Signed(b) * (den \div b.den)
  IN  IF t = 0 THEN [neg |-> a.neg /\ b.neg, num |-> 0, den |-> den]
      ELSE IF t < 0 THEN [neg |-> TRUE, num |-> 0 - t, den |-> den]
      ELSE [neg |-> FALSE, num |-> t, den |-> den]

DecimalDiv(a, n) == [neg |-> a.neg, num |-> a.num, den |-> a.den * n]

RECURSIVE SumFrom(_, _)
SumFrom(values, start) ==
  IF values = <<>> THEN start
  ELSE SumFrom(Tail(values), DecimalAdd(start, Head(values)))

mean(values) == DecimalDiv(SumFrom(values, DecimalZero), Len(values))

QUANTIZE_EXP == 3

(* quantize with ROUND_DOWN in place of ROUND_HALF_UP *)
format_decimal_round_down(value) ==
  Num(value.neg, (value.num * Pow10(QUANTIZE_EXP)) \div value.den, QUANTIZE_EXP)

(* quantize with the context default ROUND_HALF_EVEN in place of ROUND_HALF_UP *)
format_decimal_half_even(value) ==
  LET scaled == value.num * Pow10(QUANTIZE_EXP)
      q      == scaled \div value.den
      r      == scaled % value.den
  IN  Num(value.neg,
          IF 2 * r > value.den \/ (2 * r = value.den /\ q % 2 = 1) THEN q + 1 ELSE q,
          QUANTIZE_EXP)

format_decimal(value) ==
  Num(value.neg,
      (2 * value.num * Pow10(QUANTIZE_EXP) + value.den) \div (2 * value.den),
      QUANTIZE_EXP)

(* ------------------------------- inputs ------------------------------- *)

Row(f, v) == [fips |-> f, pm |-> v]

PmRowChoices ==
  { Row(Str(<<"1", "0", "0", "1">>), Num(FALSE, 8123, 3)),
    Row(Str(<<"0", "1", "0", "0", "3">>), Num(FALSE, 8877, 3)),
    Row(Str(<<" ", "1", "0", "0", "1", " ">>), Num(FALSE, 25, 4)),
    Row(Str(<<"0", "1", "0", "0", "3">>), Num(FALSE, 2, 3)),
    Row(Str(<<"5", "9">>), Num(FALSE, 81225, 4)),
    Row(Str(<<>>), Num(FALSE, 3, 3)),
    Row(NoneField, Num(FALSE, 8877, 3)),
    Row(Str(<<"1">>), Num(TRUE, 5, 4)),
    Row(Str(<<"1", "0", "0", "1">>), EmptyValue),
    Row(Str(<<"0", "1", "0", "0", "3">>), NoneValue),
    Row(Str(<<"5", "9">>), BadValue) }

PlaceChoices ==
  { Str(<<"1", "0", "0", "1">>),
    Str(<<"0", "1", "0", "0", "1">>),
    Str(<<"0", "1", "0", "0", "5">>),
    Str(<<"5", "9">>),
    Str(<<" ">>),
    NoneField,
    Str(<<"3", "0", "0", "1">>) }

RECURSIVE SeqsUpTo(_, _)
SeqsUpTo(S, n) ==
  IF n = 0 THEN {<<>>}
  ELSE LET shorter == SeqsUpTo(S, n - 1)
       IN  shorter \cup {Append(q, x) : q \in {r \in shorter : Len(r) = n - 1}, x \in S}

AbsentFile == [exists |-> FALSE, header |-> FALSE, rows |-> <<>>]

PmFiles ==
  {AbsentFile, [exists |-> TRUE, header |-> FALSE, rows |-> <<>>]}
  \cup {[exists |-> TRUE, header |-> TRUE, rows |-> q] : q \in SeqsUpTo(PmRowChoices, MaxPmRows)}

PlacesFiles ==
  {AbsentFile}
  \cup {[exists |-> TRUE, header |-> TRUE, rows |-> q] : q \in SeqsUpTo(PlaceChoices, MaxPlaces)}

EmptyMap == [k \in {} |-> 0]

Put(m, k, v) == [x \in DOMAIN m \cup {k} |-> IF x = k THEN v ELSE m[x]]

(* csv.DictReader over an opened file: the rows after the header line *)
DictRows(file) == IF file.header THEN file.rows ELSE <<>>

(* ------------------------------- program ------------------------------ *)

Init ==
  /\ pmFile \in PmFiles
  /\ placesFile \in PlacesFiles
  /\ inputFile = pmFile
  /\ pc = "main"
  /\ run = 1
  /\ idx = 0
  /\ pm_values = EmptyMap
  /\ state_values = EmptyMap
  /\ national_values = <<>>
  /\ fips_codes = <<>>
  /\ all_fips = <<>>
  /\ national_mean = DecimalZero
  /\ state_means = EmptyMap
  /\ output_rows = <<>>
  /\ err = "none"

Fail(kind) ==
  /\ pc' = "error"
  /\ err' = kind

(* the data file is opened in a truncating mode ('w+') before it is read *)
OpenPmInputTruncating ==
  /\ pc = "main"
  /\ pmFile' = [exists |-> TRUE, header |-> FALSE, rows |-> <<>>]
  /\ pc' = "load_pm"
  /\ idx' = 1
  /\ UNCHANGED <<placesFile, run, pm_values, state_values, national_values,
                 fips_codes, all_fips, national_mean, state_means,
                 output_rows, err, inputFile>>

(* main() calls load_existing_pm(), which opens PM_INPUT_PATH for reading *)
OpenPmInput ==
  /\ pc = "main"
  /\ IF pmFile.exists
     THEN /\ pc' = "load_pm"
          /\ idx' = 1
          /\ err' = err
     ELSE /\ Fail("io")
          /\ idx' = idx
  /\ UNCHANGED <<pmFile, placesFile, run, pm_values, state_values,
                 national_values, fips_codes, all_fips, national_mean,
                 state_means, output_rows, inputFile>>

(* state_values[state] = [value]: the list is replaced, not extended *)
state_overwrite(sv, state, value) == Put(sv, state, <<value>>)

(* state_values[state].append(value) on a defaultdict(list) *)
state_append(sv, state, value) ==
  Put(sv, state, Append(IF state \in DOMAIN sv THEN sv[state] ELSE <<>>, value))

(* only a missing value field discards the row; '' goes on to Decimal('') *)
SkipsRowNoneOnly(fips, raw_value) ==
  \/ fips = <<>>
  \/ raw_value.kind = "None"

(* the tests of the loop body that discard a row *)
SkipsRow(fips, raw_value) ==
  \/ fips = <<>>
  \/ raw_value.kind = "None"
  \/ raw_value.kind = "empty"

(* one iteration of the loop of load_existing_pm *)
LoadPmRow ==
  /\ pc = "load_pm"
  /\ idx <= Len(DictRows(pmFile))
  /\ LET row       == DictRows(pmFile)[idx]
         fips      == normalize_fips(row.fips)
         raw_value == row.pm
     IN  IF SkipsRow(fips, raw_value)
         THEN /\ idx' = idx + 1
              /\ UNCHANGED <<pc, err, pm_values, state_values, national_values>>
         ELSE IF ~ParseOk(raw_value)
         THEN /\ Fail("invalid")
              /\ UNCHANGED <<idx, pm_values, state_values, national_values>>
         ELSE LET value == parse_decimal(raw_value)
                  state == Prefix2(fips)
              IN  /\ pm_values' = Put(pm_values, fips, value)
                  /\ state_values' = state_append(state_values, state, value)
                  /\ national_values' = Append(national_values, value)
                  /\ idx' = idx + 1
                  /\ UNCHANGED <<pc, err>>
  /\ UNCHANGED <<pmFile, placesFile, run, fips_codes, all_fips, national_mean,
                 state_means, output_rows, inputFile>>

(* the end of load_existing_pm; main() then calls load_county_fips(), which
   opens PLACES_PATH *)
LoadPmEnd ==
  /\ pc = "load_pm"
  /\ idx > Len(DictRows(pmFile))
  /\ IF national_values = <<>>
     THEN /\ Fail("empty")
          /\ idx' = idx
     ELSE IF ~placesFile.exists
     THEN /\ Fail("io")
          /\ idx' = idx
     ELSE /\ pc' = "load_places"
          /\ idx' = 1
          /\ err' = err
  /\ UNCHANGED <<pmFile, placesFile, run, pm_values, state_values,
                 national_values, fips_codes, all_fips, national_mean,
                 state_means, output_rows, inputFile>>

(* one iteration of the loop of load_county_fips *)
LoadPlacesRow ==
  /\ pc = "load_places"
  /\ idx <= Len(DictRows(placesFile))
  /\ LET fips == normalize_fips(DictRows(placesFile)[idx])
     IN  fips_codes' = IF fips = <<>> THEN fips_codes ELSE Append(fips_codes, fips)
  /\ idx' = idx + 1
  /\ UNCHANGED <<pmFile, placesFile, pc, run, pm_values, state_values,
                 national_values, all_fips, national_mean, state_means,
                 output_rows, err, inputFile>>

Range(q) == {q[i] : i \in 1..Len(q)}

RECURSIVE SortSet(_)
SortSet(S) ==
  IF S = {} THEN <<>>
  ELSE LET m == CHOOSE x \in S : \A y \in S \ {x} : StrLess(x, y)
       IN  <<m>> \o SortSet(S \ {m})

RECURSIVE InsertSorted(_, _)
InsertSorted(q, x) ==
  IF q = <<>> THEN <<x>>
  ELSE IF StrLess(x, Head(q)) THEN <<x>> \o q
  ELSE <<Head(q)>> \o InsertSorted(Tail(q), x)

RECURSIVE SortList(_)
SortList(q) == IF q = <<>> THEN <<>> ELSE InsertSorted(SortList(Tail(q)), Head(q))

(* sorted(codes): the duplicates are kept *)
sorted_with_duplicates(codes) == SortList(codes)

(* sorted(set(codes)) *)
sorted_set(codes) == SortSet(Range(codes))

(* load_county_fips returns; main() sorts the codes and computes the means *)
ComputeMeans ==
  /\ pc = "load_places"
  /\ idx > Len(DictRows(placesFile))
  /\ all_fips' = sorted_set(fips_codes)
  /\ national_mean' = mean(national_values)
  /\ state_means' = [s \in DOMAIN state_values |-> mean(state_values[s])]
  /\ output_rows' = <<>>
  /\ idx' = 1
  /\ pc' = "backfill"
  /\ UNCHANGED <<pmFile, placesFile, run, pm_values, state_values,
                 national_values, fips_codes, err, inputFile>>

SENTINEL == <<"0", "0", "0", "0", "0">>

OVERRIDE == <<"0", "0", "0", "5", "9">>

(* the direct measurement is looked up before the "00059" override *)
backfill_value_direct_first(fips, pmv, smeans, nmean) ==
  IF fips \in DOMAIN pmv THEN pmv[fips]
  ELSE IF fips = OVERRIDE THEN nmean
  ELSE IF Prefix2(fips) \in DOMAIN smeans THEN smeans[Prefix2(fips)]
  ELSE nmean

(* state_means.get(state, Decimal('0')): no fallback to the national mean *)
backfill_value_zero_default(fips, pmv, smeans, nmean) ==
  IF fips = OVERRIDE THEN nmean
  ELSE IF fips \in DOMAIN pmv THEN pmv[fips]
  ELSE IF Prefix2(fips) \in DOMAIN smeans THEN smeans[Prefix2(fips)]
  ELSE DecimalZero

(* the value chosen for one county in the loop of main() *)
backfill_value(fips, pmv, smeans, nmean) ==
  IF fips = OVERRIDE THEN nmean
  ELSE IF fips \in DOMAIN pmv THEN pmv[fips]
  ELSE IF Prefix2(fips) \in DOMAIN smeans THEN smeans[Prefix2(fips)]
  ELSE nmean

(* one iteration of the output loop of main() *)
BackfillRow ==
  /\ pc = "backfill"
  /\ idx <= Len(all_fips)
  /\ LET fips == all_fips[idx]
     IN  output_rows' =
           IF fips = SENTINEL THEN output_rows
           ELSE Append(output_rows,
                       Row(Str(fips),
                           format_decimal(backfill_value(fips, pm_values,
                                                         state_means, national_mean))))
  /\ idx' = idx + 1
  /\ UNCHANGED <<pmFile, placesFile, pc, run, pm_values, state_values,
                 national_values, fips_codes, all_fips, national_mean,
                 state_means, err, inputFile>>

(* PM_OUTPUT_PATH.open('a'): the rows already in the file are kept *)
OpenOutputAppend ==
  /\ pc = "backfill"
  /\ idx > Len(all_fips)
  /\ pmFile' = [pmFile EXCEPT !.exists = TRUE]
  /\ pc' = "writeheader"
  /\ UNCHANGED <<placesFile, run, idx, pm_values, state_values,
                 national_values, fips_codes, all_fips, national_mean,
                 state_means, output_rows, err, inputFile>>

(* PM_OUTPUT_PATH.open('w'): creates or truncates the file *)
OpenOutput ==
  /\ pc = "backfill"
  /\ idx > Len(all_fips)
  /\ pmFile' = [exists |-> TRUE, header |-> FALSE, rows |-> <<>>]
  /\ pc' = "writeheader"
  /\ UNCHANGED <<placesFile, run, idx, pm_values, state_values,
                 national_values, fips_codes, all_fips, national_mean,
                 state_means, output_rows, err, inputFile>>

WriteHeader ==
  /\ pc = "writeheader"
  /\ pmFile' = [pmFile EXCEPT !.header = TRUE]
  /\ pc' = "writerows"
  /\ UNCHANGED <<placesFile, run, idx, pm_values, state_values,
                 national_values, fips_codes, all_fips, national_mean,
                 state_means, output_rows, err, inputFile>>

WriteRows ==
  /\ pc = "writerows"
  /\ pmFile' = [pmFile EXCEPT !.rows = pmFile.rows \o output_rows]
  /\ pc' = "done"
  /\ UNCHANGED <<placesFile, run, idx, pm_values, state_values,
                 national_values, fips_codes, all_fips, national_mean,
                 state_means, output_rows, err, inputFile>>

(* the script is run again on the file it has just written *)
RunAgain ==
  /\ pc = "done"
  /\ run < MaxRuns
  /\ run' = run + 1
  /\ inputFile' = pmFile
  /\ pc' = "main"
  /\ idx' = 0
  /\ pm_values' = EmptyMap
  /\ state_values' = EmptyMap
  /\ national_values' = <<>>
  /\ fips_codes' = <<>>
  /\ all_fips' = <<>>
  /\ national_mean' = DecimalZero
  /\ state_means' = EmptyMap
  /\ output_rows' = <<>>
  /\ UNCHANGED <<pmFile, placesFile, err>>

Next ==
  \/ OpenPmInput
  \/ LoadPmRow
  \/ LoadPmEnd
  \/ LoadPlacesRow
  \/ ComputeMeans
  \/ BackfillRow
  \/ OpenOutput
  \/ WriteHeader
  \/ WriteRows
  \/ RunAgain

Spec == Init /\ [][Next]_vars

(* ------------------- reference values for the claims ------------------ *)
(* Computed from the file as it was when the run started and from the     *)
(* reference file, in integer units of 10^-4.                             *)

InRows == DictRows(inputFile)

PlaceRows == DictRows(placesFile)

RetainedIdx == {i \in 1..Len(InRows) : InRows[i].pm.kind \notin {"None", "empty"}}

IdOf(i) == normalize_fips(InRows[i].fips)

EmptyIdField(f) == f.none \/ \A k \in 1..Len(f.s) : f.s[k] = " "

Units(text) ==
  (IF text.neg THEN 0 - text.coeff ELSE text.coeff) * Pow10(4 - text.exp)

RECURSIVE SumUnits(_)
SumUnits(S) ==
  IF S = {} THEN 0
  ELSE LET i == CHOOSE x \in S : TRUE
       IN  Units(InRows[i].pm) + SumUnits(S \ {i})

Abs(x) == IF x < 0 THEN 0 - x ELSE x

(* the text of t / den thousandths, rounded half-up (ties away from zero) *)
HalfUpText(t, den) ==
  LET q == Abs(t) \div den
      m == CHOOSE k \in {q, q + 1} :
             /\ 2 * den * k <= 2 * Abs(t) + den
             /\ 2 * Abs(t) + den < 2 * den * (k + 1)
  IN  Num(t < 0, m, 3)

MeanText(S) == HalfUpText(SumUnits(S), 10 * Cardinality(S))

NationalText == MeanText(RetainedIdx)

StateIdx(st) == {i \in RetainedIdx : Prefix2(IdOf(i)) = st}

DirectIdx(f) == {i \in RetainedIdx : IdOf(i) = f}

LastIdx(S) == CHOOSE i \in S : \A j \in S : j <= i

CountyUniverse == {normalize_fips(PlaceRows[i]) : i \in 1..Len(PlaceRows)} \ {SENTINEL}

OutRows == pmFile.rows

OutIds == {OutRows[i].fips.s : i \in 1..Len(OutRows)}

OutValue(f) == OutRows[CHOOSE i \in 1..Len(OutRows) : OutRows[i].fips.s = f].pm

Written == pc = "done"

LoaderReturned == pc \in {"load_places", "backfill", "writeheader", "writerows", "done"}
                  \/ (pc = "error" /\ err = "io" /\ inputFile.exists)

LoaderEnded == LoaderReturned \/ (pc = "error" /\ inputFile.exists)

(* ------------------------------- claims ------------------------------- *)

(* C1: when main() has completed, the identifiers of the written rows are
   exactly the normalized reference identifiers other than "00000", each in
   exactly one row, in strictly ascending order. *)
C1_ExactUniverse ==
  Written =>
    /\ pmFile.exists /\ pmFile.header
    /\ OutIds = CountyUniverse
    /\ Len(OutRows) = Cardinality(CountyUniverse)
    /\ \A i \in 1..Len(OutRows) : ~OutRows[i].fips.none
    /\ \A i \in 1..Len(OutRows) - 1 : StrLess(OutRows[i].fips.s, OutRows[i + 1].fips.s)

C1_Witness ==
  /\ Written /\ run = 1
  /\ Len(PlaceRows) = 2
  /\ normalize_fips(PlaceRows[1]) = normalize_fips(PlaceRows[2])
  /\ PlaceRows[1] # PlaceRows[2]
  /\ Len(OutRows) = 1
  /\ \E i \in RetainedIdx : IdOf(i) \notin CountyUniverse /\ IdOf(i) # SENTINEL

C1_WitnessOrder ==
  /\ Written /\ run = 1
  /\ Len(PlaceRows) = 2
  /\ StrLess(normalize_fips(PlaceRows[2]), normalize_fips(PlaceRows[1]))
  /\ Len(OutRows) = 2

(* C2: whenever "00059" is a reference county its written value is the
   national mean of the retained input values, rounded half-up to 3
   decimals, whatever direct measurement or state mean exists for it. *)
C2_OverrideNational ==
  (Written /\ OVERRIDE \in CountyUniverse) => OutValue(OVERRIDE) = NationalText

C2_Witness ==
  /\ Written /\ run = 1
  /\ OVERRIDE \in CountyUniverse
  /\ DirectIdx(OVERRIDE) # {}
  /\ HalfUpText(Units(InRows[LastIdx(DirectIdx(OVERRIDE))].pm), 10) # NationalText
  /\ MeanText(StateIdx(Prefix2(OVERRIDE))) # NationalText

(* C3: a reference county other than "00059" and "00000" that has a direct
   measurement keeps it: its written value is the measurement (the last one
   read) rounded half-up to 3 decimals. *)
C3_DirectKept ==
  Written =>
    \A f \in CountyUniverse \ {OVERRIDE} :
      DirectIdx(f) # {} =>
        OutValue(f) = HalfUpText(Units(InRows[LastIdx(DirectIdx(f))].pm), 10)

C3_Witness ==
  /\ Written /\ run = 1
  /\ \E f \in CountyUniverse \ {OVERRIDE} :
       /\ DirectIdx(f) # {}
       /\ InRows[LastIdx(DirectIdx(f))].pm.exp = 4
       /\ OutValue(f).coeff * 10 > InRows[LastIdx(DirectIdx(f))].pm.coeff
       /\ OutValue(f) # MeanText(StateIdx(Prefix2(f)))
       /\ OutValue(f) # NationalText

(* C4 as stated: every written county without a direct measurement whose
   state has an observed value gets the state mean. *)
C4_Original ==
  Written =>
    \A f \in CountyUniverse :
      (DirectIdx(f) = {} /\ StateIdx(Prefix2(f)) # {}) =>
        OutValue(f) = MeanText(StateIdx(Prefix2(f)))

(* C4 amended: every written county other than "00059" without a direct
   measurement whose state has an observed value gets the mean of that
   state's observed values, rounded half-up to 3 decimals. *)
C4_StateMean ==
  Written =>
    \A f \in CountyUniverse \ {OVERRIDE} :
      (DirectIdx(f) = {} /\ StateIdx(Prefix2(f)) # {}) =>
        OutValue(f) = MeanText(StateIdx(Prefix2(f)))

C4_Witness ==
  /\ Written /\ run = 1
  /\ \E f \in CountyUniverse \ {OVERRIDE} :
       /\ DirectIdx(f) = {}
       /\ Cardinality(StateIdx(Prefix2(f))) = 2
       /\ OutValue(f) = Num(FALSE, 8500, 3)

C4_WitnessTie ==
  /\ Written /\ run = 1
  /\ \E f \in CountyUniverse \ {OVERRIDE} :
       /\ DirectIdx(f) = {}
       /\ Cardinality(StateIdx(Prefix2(f))) = 2
       /\ SumUnits(StateIdx(Prefix2(f))) = 81250
       /\ OutValue(f) = Num(FALSE, 4063, 3)

(* C5: a written county whose state has no observed value gets the national
   mean, rounded half-up to 3 decimals. *)
C5_NationalFallback ==
  Written =>
    \A f \in CountyUniverse :
      StateIdx(Prefix2(f)) = {} => OutValue(f) = NationalText

C5_Witness ==
  /\ Written /\ run = 1
  /\ \E f \in CountyUniverse \ {OVERRIDE} :
       /\ StateIdx(Prefix2(f)) = {}
       /\ Cardinality(RetainedIdx) = 2
       /\ OutValue(f).coeff # 0

(* C6 as stated: a second run on the first run's output leaves the file
   byte-for-byte identical. *)
C6_Original ==
  (Written /\ run >= 2) => pmFile = inputFile

(* C6 amended: a second run on the first run's output leaves every row
   identical except possibly the value of the row for "00059", which is the
   national mean recomputed over the rows of the first run's output; a
   second run that aborts leaves the file as it was. *)
C6_IdempotentButOverride ==
  (run >= 2 /\ pc \in {"done", "error"}) =>
    /\ pmFile.exists = inputFile.exists
    /\ pmFile.header = inputFile.header
    /\ Len(pmFile.rows) = Len(inputFile.rows)
    /\ \A i \in 1..Len(pmFile.rows) :
         /\ pmFile.rows[i].fips = inputFile.rows[i].fips
         /\ IF pmFile.rows[i].fips.s = OVERRIDE /\ pc = "done"
            THEN pmFile.rows[i].pm = NationalText
            ELSE pmFile.rows[i].pm = inputFile.rows[i].pm

C6_Witness ==
  /\ Written /\ run = 2
  /\ Len(OutRows) = 2
  /\ OVERRIDE \in OutIds
  /\ pmFile # inputFile

C6_WitnessSame ==
  /\ Written /\ run = 2
  /\ Len(OutRows) = 2
  /\ OVERRIDE \notin OutIds
  /\ pmFile = inputFile

(* C7: the file is opened for writing only after both inputs are loaded and
   every output value is computed and formatted, so a run that aborts leaves
   the file as it was before the run. *)
C7_NoWriteBeforeComputed ==
  /\ pc \in {"main", "load_pm", "load_places", "backfill", "error"} => pmFile = inputFile
  /\ pc \in {"writeheader", "writerows", "done"} =>
       Len(output_rows) = Cardinality(CountyUniverse)
  /\ pc = "error" => err \in {"invalid", "empty", "io"}

C7_Witness ==
  /\ pc = "error" /\ err = "invalid"
  /\ Len(InRows) = 2
  /\ pmFile = inputFile

C7_WitnessEmpty ==
  /\ pc = "error" /\ err = "empty"
  /\ Len(InRows) = 2

C7_WitnessIo ==
  /\ pc = "error" /\ err = "io"
  /\ Len(InRows) = 2

(* C8: the loader raises the empty-dataset error exactly when no row has a
   value field that is present and non-empty; when some row has one and all
   such values parse, it returns a non-empty national list. *)
C8_EmptyIffNoneRetained ==
  /\ err = "empty" <=> (LoaderEnded /\ RetainedIdx = {})
  /\ (LoaderEnded /\ RetainedIdx # {} /\ \A i \in RetainedIdx : InRows[i].pm.kind = "num")
       => (LoaderReturned /\ Len(national_values) >= 1)
  /\ pc \in {"backfill", "writeheader", "writerows", "done"} => national_mean.den > 0

C8_Witness ==
  /\ err = "empty"
  /\ Len(InRows) = 2
  /\ \E i, j \in 1..Len(InRows) : InRows[i].pm.kind = "None" /\ InRows[j].pm.kind = "empty"

C8_WitnessReturned ==
  /\ LoaderReturned
  /\ Len(InRows) = 2
  /\ Cardinality(RetainedIdx) = 1
  /\ Len(national_values) = 1

(* C9: a row whose identifier field is missing or blank adds nothing to the
   per-county map, the state lists or the national list. *)
C9_EmptyIdSkipped ==
  LoaderReturned =>
    LET kept == {i \in RetainedIdx : ~EmptyIdField(InRows[i].fips)}
    IN  /\ Len(national_values) = Cardinality(kept)
        /\ DOMAIN pm_values = {IdOf(i) : i \in kept}

(* C10: every retained row adds one value to the national list and one to
   the list of its state, whatever its identifier, and the per-county map
   holds the value of the last row of each identifier. *)
C10_EveryRowCounts ==
  LoaderReturned =>
    /\ Len(national_values) = Cardinality(RetainedIdx)
    /\ \A i \in RetainedIdx : national_values[Cardinality({j \in RetainedIdx : j <= i})]
                                = parse_decimal(InRows[i].pm)
    /\ DOMAIN state_values = {Prefix2(IdOf(i)) : i \in RetainedIdx}
    /\ \A st \in DOMAIN state_values : Len(state_values[st]) = Cardinality(StateIdx(st))
    /\ DOMAIN pm_values = {IdOf(i) : i \in RetainedIdx}
    /\ \A f \in DOMAIN pm_values : pm_values[f] = parse_decimal(InRows[LastIdx(DirectIdx(f))].pm)

C10_Witness ==
  /\ LoaderReturned /\ run = 1
  /\ Len(national_values) = 2
  /\ Cardinality(DOMAIN pm_values) = 1
  /\ InRows[1].pm # InRows[2].pm
  /\ \A st \in DOMAIN state_values : Len(state_values[st]) = 2

C10_WitnessSentinel ==
  /\ LoaderReturned /\ run = 1
  /\ Len(national_values) = 2
  /\ SENTINEL \in DOMAIN pm_values
  /\ OVERRIDE \in DOMAIN pm_values

====
